---- MODULE Spec2Model ----
(***************************************************************************)
(* autotyper: the playback run of the root command (cmd/root.go, RunE) and *)
(* the helpers of package cli it calls.                                    *)
(*                                                                         *)
(* A string is a sequence of characters; an ANSI escape sequence is kept   *)
(* as one element.  The screen is the ordered log of everything the run    *)
(* does to the terminal: clears, prompts, writes, sleeps, executions.      *)
(***************************************************************************)
EXTENDS Integers, Sequences, FiniteSets, TLC

\* ------------------------------------------------------------------------
\* Bounds of the model
\* ------------------------------------------------------------------------
\* longest text read from a file or from standard input
MaxLen == 3
\* largest number of command-line arguments
MaxArgs == 2

\* ------------------------------------------------------------------------
\* Characters and texts
\* ------------------------------------------------------------------------
NL == "\n"
CR == "\r"
SP == " "
Alphabet == {"a", SP, NL, CR}

Texts == UNION {[1..k -> Alphabet] : k \in 0..MaxLen}

\* command-line arguments
ArgWords == {<<"a">>}
ArgLists == UNION {[1..k -> ArgWords] : k \in 0..MaxArgs}

\* ------------------------------------------------------------------------
\* package strings
\* ------------------------------------------------------------------------
\* strings.Count(s, c) for a one-character c
RECURSIVE Count(_, _)
Count(s, c) ==
    IF s = <<>> THEN 0
    ELSE (IF Head(s) = c THEN 1 ELSE 0) + Count(Tail(s), c)

\* strings.Index(s, c) for a one-character c, 1-based; 0 when c is absent
RECURSIVE IndexFrom(_, _, _)
IndexFrom(s, c, i) ==
    IF i > Len(s) THEN 0
    ELSE IF s[i] = c THEN i
    ELSE IndexFrom(s, c, i + 1)

Index(s, c) == IndexFrom(s, c, 1)

\* Split that leaves out an empty piece at the end, as a line scanner does
RECURSIVE SplitNoTrailing(_, _)
SplitNoTrailing(s, sep) ==
    LET m == IndexFrom(s, sep, 1)
    IN  IF m = 0 THEN <<s>>
        ELSE IF m = Len(s) THEN <<SubSeq(s, 1, m - 1)>>
        ELSE <<SubSeq(s, 1, m - 1)>> \o SplitNoTrailing(SubSeq(s, m + 1, Len(s)), sep)

\* strings.Split(s, sep) for a one-character sep: cut at every sep, keep
\* the empty pieces, the rest of the string is the last piece
RECURSIVE Split(_, _)
Split(s, sep) ==
    LET m == Index(s, sep)
    IN  IF m = 0 THEN <<s>>
        ELSE <<SubSeq(s, 1, m - 1)>> \o Split(SubSeq(s, m + 1, Len(s)), sep)

\* strings.Join(elems, sep) for a one-character sep
RECURSIVE Join(_, _)
Join(elems, sep) ==
    IF elems = <<>> THEN <<>>
    ELSE IF Len(elems) = 1 THEN elems[1]
    ELSE elems[1] \o <<sep>> \o Join(Tail(elems), sep)

\* strings.ReplaceAll(s, "\r\n", "\n"): left to right, non-overlapping,
\* the replacement text is not scanned again
RECURSIVE ReplaceCRLF(_)
ReplaceCRLF(s) ==
    IF s = <<>> THEN <<>>
    ELSE IF Len(s) >= 2 /\ s[1] = CR /\ s[2] = NL
         THEN <<NL>> \o ReplaceCRLF(SubSeq(s, 3, Len(s)))
    ELSE <<Head(s)>> \o ReplaceCRLF(Tail(s))

\* strings.TrimRight(s, "\n"): drop every trailing newline
RECURSIVE TrimRightNL(_)
TrimRightNL(s) ==
    IF s # <<>> /\ s[Len(s)] = NL THEN TrimRightNL(SubSeq(s, 1, Len(s) - 1))
    ELSE s

\* ------------------------------------------------------------------------
\* package bufio: Scanner with the default split function ScanLines
\* ------------------------------------------------------------------------
\* dropCR: one trailing carriage return is removed from a line
DropCR(line) ==
    IF line # <<>> /\ line[Len(line)] = CR THEN SubSeq(line, 1, Len(line) - 1)
    ELSE line

\* the tokens scanner.Scan() yields: the lines without their terminators;
\* a last line without a newline is a token only when it is not empty
RECURSIVE ScanLines(_)
ScanLines(data) ==
    LET m == Index(data, NL)
    IN  IF data = <<>> THEN <<>>
        ELSE IF m = 0 THEN <<DropCR(data)>>
        ELSE <<DropCR(SubSeq(data, 1, m - 1))>>
                 \o ScanLines(SubSeq(data, m + 1, Len(data)))

\* ------------------------------------------------------------------------
\* package cli: input acquisition
\* ------------------------------------------------------------------------
\* the loop of ProcessFile: every scanned line followed by a newline
RECURSIVE AppendLines(_)
AppendLines(lines) ==
    IF lines = <<>> THEN <<>>
    ELSE Head(lines) \o <<NL>> \o AppendLines(Tail(lines))

\* ProcessFile on a file that opens and scans without error
ProcessFile(raw) == TrimRightNL(AppendLines(ScanLines(raw)))

\* ProcessStdin on a standard input that reads without error: io.ReadAll
ProcessStdin(raw) == raw

\* ------------------------------------------------------------------------
\* package cli: the prompt
\* ------------------------------------------------------------------------
\* type ShellOption int; const ( PS = iota; Cmd; Bash )
PS == 0
Cmd == 1
Bash == 2

\* the escape sequences PrintPrompt and TypeAsHuman print, one element each
Green == "ESC[38;5;82m"
Blue == "ESC[38;5;32m"
Yellow == "ESC[38;5;229m"
White == "ESC[0m"

UnknownShell ==
    <<"U", "n", "k", "n", "o", "w", "n", " ", "s", "h", "e", "l", "l", ":", " ">>

\* PrintPrompt with the PS and Cmd cases exchanged
PrintPromptSwapped(q) ==
    CASE q.Shell = Cmd  -> <<"P", "S", " ">> \o q.Path \o <<">", " ">>
      [] q.Shell = PS   -> q.Path \o <<">", " ">>
      [] q.Shell = Bash -> <<Green>> \o q.Username \o <<"@">> \o q.Hostname
                               \o <<White, ":", Blue>> \o q.Path
                               \o <<White, "$", " ">>
      [] OTHER          -> UnknownShell \o <<ToString(q.Shell), NL>>

\* what PrintPrompt(q, out) writes to out
PrintPrompt(q) ==
    CASE q.Shell = PS   -> <<"P", "S", " ">> \o q.Path \o <<">", " ">>
      [] q.Shell = Cmd  -> q.Path \o <<">", " ">>
      [] q.Shell = Bash -> <<Green>> \o q.Username \o <<"@">> \o q.Hostname
                               \o <<White, ":", Blue>> \o q.Path
                               \o <<White, "$", " ">>
      [] OTHER          -> UnknownShell \o <<ToString(q.Shell), NL>>

\* the shell switch without a default style: an unknown name gets no style
ShellOfKnown(name) ==
    CASE name = <<"c", "m", "d">>      -> Cmd
      [] name = <<"b", "a", "s", "h">> -> Bash
      [] name = <<"p", "s">>           -> PS
      [] OTHER                         -> 3

\* the switch on the shell option in RunE
ShellOf(name) ==
    CASE name = <<"c", "m", "d">>      -> Cmd
      [] name = <<"b", "a", "s", "h">> -> Bash
      [] OTHER                         -> PS

\* the default path of RunE when the path option is empty
PathOf(path, shell) ==
    IF path # <<>> THEN path
    ELSE CASE shell = Cmd  -> <<"C", ":", "\\">>
           [] shell = Bash -> <<"~">>
           [] OTHER        -> <<"C", ":", "\\">>

\* ------------------------------------------------------------------------
\* package cli: ExecuteCommand
\* ------------------------------------------------------------------------
\* the command cut at its first space only (strings.SplitN with n = 2)
CmdListTwo(command) ==
    LET m == Index(command, SP)
    IN  IF m = 0 THEN <<command>>
        ELSE <<SubSeq(command, 1, m - 1), SubSeq(command, m + 1, Len(command))>>

\* cmdList := strings.Split(command, " ")
CmdList(command) == Split(command, SP)

\* ------------------------------------------------------------------------
\* The options of a run (viper) and its environment
\* ------------------------------------------------------------------------
ShellNames == {<<"c", "m", "d">>, <<"b", "a", "s", "h">>, <<"p", "s">>, <<"z", "s", "h">>}
PathNames == {<<>>, <<"/", "x">>}
UserNames == {<<"u">>, <<"r">>}
HostNames == {<<"h">>}
FileNames == {<<>>, <<"f">>}
Delays == {0, 1}
CharDelays == {-1, 0, 1}

Configs ==
    [inputFile : FileNames, shell : ShellNames, path : PathNames,
     username : UserNames, hostname : HostNames,
     preDelay : Delays, charDelay : CharDelays, postDelay : Delays,
     noCls : BOOLEAN]

\* the options the slices below start from
BaseConfig ==
    [inputFile |-> <<>>, shell |-> <<"p", "s">>, path |-> <<>>,
     username |-> <<"u">>, hostname |-> <<"h">>,
     preDelay |-> 1, charDelay |-> 0, postDelay |-> 1, noCls |-> FALSE]

Run(c, piped, a, f) == [cfg |-> c, stdinPiped |-> piped, args |-> a, flaky |-> f]

\* The runs explored.  A run that reads a text has many continuations, and
\* more when the host may fail it, so the options are varied one group at
\* a time on such runs, and all together on runs that take their input
\* from the arguments.
\*   every combination of options, input from the arguments (or none)
RunsByArgs ==
    {Run(c, FALSE, a, f) :
        c \in {c \in Configs : c.inputFile = <<>>}, a \in ArgLists, f \in BOOLEAN}
\*   every combination of input sources
RunsBySource ==
    {Run([BaseConfig EXCEPT !.inputFile = f], piped, a, FALSE) :
        f \in FileNames, piped \in BOOLEAN, a \in ArgLists}
\*   every combination of the delays and of no-cls, on a piped text
RunsByLoop ==
    {Run([BaseConfig EXCEPT !.preDelay = c.preDelay, !.postDelay = c.postDelay,
                            !.noCls = c.noCls],
         TRUE, <<>>, FALSE) : c \in Configs}
\*   every character delay, with and without no-cls, on a piped text
RunsByTyping ==
    {Run([BaseConfig EXCEPT !.charDelay = c.charDelay, !.noCls = c.noCls],
         TRUE, <<>>, FALSE) : c \in Configs}
\*   every shell and path option, on a text from a file
RunsByPrompt ==
    {Run([BaseConfig EXCEPT !.inputFile = <<"f">>, !.shell = c.shell, !.path = c.path],
         FALSE, <<>>, FALSE) : c \in Configs}
\*   a host that may fail any command and any clear, on a piped text and
\*   on a text from a file, with and without no-cls
RunsByFailure ==
    {Run([BaseConfig EXCEPT !.inputFile = c.inputFile, !.noCls = c.noCls],
         c.inputFile = <<>>, <<>>, TRUE) : c \in Configs}

Runs ==
    RunsByArgs \cup RunsBySource \cup RunsByLoop \cup RunsByTyping
        \cup RunsByPrompt \cup RunsByFailure

VARIABLES
    pc,         \* the statement of RunE the run is at
    cfg,        \* the options, as viper returns them
    stdinPiped, \* standard input is not a character device
    args,       \* the command-line arguments
    flaky,      \* the host may fail a command or a clear
    acquired,   \* where the input came from and what was read (history)
    input,      \* var input string
    p,          \* the prompt descriptor
    commands,   \* the command list
    idx,        \* the position of the range loop in commands, from 1
    pos,        \* the position of TypeAsHuman's range loop in str, from 1
    screen,     \* everything done to the terminal so far, in order
    ret         \* what RunE returned

vars == <<pc, cfg, stdinPiped, args, flaky, acquired, input, p, commands, idx, pos,
          screen, ret>>

NoPrompt == [Username |-> <<>>, Hostname |-> <<>>, Path |-> <<>>, Shell |-> PS]

\* how cmd.Run() of a command or of a clear may end: TRUE is err == nil
Outcomes == IF flaky THEN BOOLEAN ELSE {TRUE}

\* one entry of the screen log
Ev(kind, step, text) ==
    [kind |-> kind, cmd |-> idx, step |-> step, text |-> text,
     argv |-> <<>>, ok |-> TRUE, ms |-> 0]

Show(evs) == screen' = screen \o evs

Init ==
    /\ pc = "acquire"
    /\ \E r \in Runs :
          /\ cfg = r.cfg
          /\ stdinPiped = r.stdinPiped
          /\ args = r.args
          /\ flaky = r.flaky
    /\ acquired = [source |-> "none", raw |-> <<>>, text |-> <<>>]
    /\ input = <<>>
    /\ p = NoPrompt
    /\ commands = <<>>
    /\ idx = 0
    /\ pos = 0
    /\ screen = <<>>
    /\ ret = "running"

\* ------------------------------------------------------------------------
\* RunE: input acquisition
\* ------------------------------------------------------------------------
Fail ==
    /\ pc' = "done"
    /\ ret' = "error"
    /\ UNCHANGED <<acquired, input>>

Got(source, raw, text) ==
    /\ acquired' = [source |-> source, raw |-> raw, text |-> text]
    /\ input' = text
    /\ pc' = "clear0"
    /\ ret' = ret

\* input-file is set: ProcessFile, whose open or scan may fail
AcquireFile ==
    /\ pc = "acquire"
    /\ cfg.inputFile # <<>>
    /\ \E raw \in Texts, ok \in BOOLEAN :
          IF ok THEN Got("file", raw, ProcessFile(raw)) ELSE Fail
    /\ UNCHANGED <<cfg, stdinPiped, args, flaky, p, commands, idx, pos, screen>>

\* standard input read whenever it is piped, input file or not
AcquireStdinFirst ==
    /\ pc = "acquire"
    /\ stdinPiped
    /\ \E raw \in Texts, ok \in BOOLEAN :
          IF ok THEN Got("stdin", raw, ProcessStdin(raw)) ELSE Fail
    /\ UNCHANGED <<cfg, stdinPiped, args, flaky, p, commands, idx, pos, screen>>

\* standard input is a pipe or a redirection: ProcessStdin, which may fail
AcquireStdin ==
    /\ pc = "acquire"
    /\ cfg.inputFile = <<>>
    /\ stdinPiped
    /\ \E raw \in Texts, ok \in BOOLEAN :
          IF ok THEN Got("stdin", raw, ProcessStdin(raw)) ELSE Fail
    /\ UNCHANGED <<cfg, stdinPiped, args, flaky, p, commands, idx, pos, screen>>

\* no file, no pipe, no arguments: print the help and return nil
ShowHelp ==
    /\ pc = "acquire"
    /\ cfg.inputFile = <<>>
    /\ ~stdinPiped
    /\ Len(args) = 0
    /\ Show(<<Ev("help", "init", <<>>)>>)
    /\ pc' = "done"
    /\ ret' = "nil"
    /\ UNCHANGED <<cfg, stdinPiped, args, flaky, acquired, input, p, commands, idx, pos>>

\* the arguments joined with single spaces
AcquireArgs ==
    /\ pc = "acquire"
    /\ cfg.inputFile = <<>>
    /\ ~stdinPiped
    /\ Len(args) # 0
    /\ Got("args", <<>>, Join(args, SP))
    /\ UNCHANGED <<cfg, stdinPiped, args, flaky, p, commands, idx, pos, screen>>

\* ------------------------------------------------------------------------
\* RunE: before the loop
\* ------------------------------------------------------------------------
\* cli.ClearScreen() and the report of its error
Cleared(step, ok) ==
    IF ok THEN <<Ev("clear", step, <<>>)>>
    ELSE <<[Ev("clear", step, <<>>) EXCEPT !.ok = FALSE], Ev("error", step, <<>>)>>

ClearFirst ==
    /\ pc = "clear0"
    /\ \E ok \in Outcomes : Show(Cleared("init", ok))
    /\ pc' = "setup"
    /\ UNCHANGED <<cfg, stdinPiped, args, flaky, acquired, input, p, commands, idx, pos, ret>>

\* the shell switch, the default path and the prompt descriptor
SetupPrompt ==
    /\ pc = "setup"
    /\ LET shellOption == ShellOf(cfg.shell)
       IN  p' = [Username |-> cfg.username, Hostname |-> cfg.hostname,
                 Path |-> PathOf(cfg.path, shellOption), Shell |-> shellOption]
    /\ pc' = "split"
    /\ UNCHANGED <<cfg, stdinPiped, args, flaky, acquired, input, commands, idx, pos, screen, ret>>

\* the line endings are normalised and the input is split into commands
SplitInput ==
    /\ pc = "split"
    /\ input' = ReplaceCRLF(input)
    /\ commands' = Split(input', NL)
    /\ pc' = "prompt0"
    /\ UNCHANGED <<cfg, stdinPiped, args, flaky, acquired, p, idx, pos, screen, ret>>

\* the first prompt; the range loop starts
PrintFirstPrompt ==
    /\ pc = "prompt0"
    /\ Show(<<Ev("prompt", "init", PrintPrompt(p))>>)
    /\ idx' = 1
    /\ pc' = "pre"
    /\ UNCHANGED <<cfg, stdinPiped, args, flaky, acquired, input, p, commands, pos, ret>>

\* ------------------------------------------------------------------------
\* RunE: the playback loop
\* ------------------------------------------------------------------------
command == commands[idx]

\* time.Sleep when the delay is positive
Slept(step, delay) ==
    IF delay > 0 THEN <<[Ev("sleep", step, <<>>) EXCEPT !.ms = delay]>> ELSE <<>>

PreDelay ==
    /\ pc = "pre"
    /\ idx <= Len(commands)
    /\ Show(Slept("pre", cfg.preDelay))
    /\ pc' = "type"
    /\ UNCHANGED <<cfg, stdinPiped, args, flaky, acquired, input, p, commands, idx, pos, ret>>

\* TypeAsHuman with delayMs = 0: the whole string in one Write
TypeWhole ==
    /\ pc = "type"
    /\ cfg.charDelay = 0
    /\ Show(<<Ev("write", "type", command)>>)
    /\ pc' = "newline"
    /\ UNCHANGED <<cfg, stdinPiped, args, flaky, acquired, input, p, commands, idx, pos, ret>>

\* TypeAsHuman with delayMs # 0: the colour of the first word is set
TypeStart ==
    /\ pc = "type"
    /\ cfg.charDelay # 0
    /\ Show(<<Ev("color", "type", <<Yellow>>)>>)
    /\ pos' = 1
    /\ pc' = "typing"
    /\ UNCHANGED <<cfg, stdinPiped, args, flaky, acquired, input, p, commands, idx, ret>>

\* a round that resets the colour at a space and goes on without writing it
TypeCharSkipSpace ==
    /\ pc = "typing"
    /\ pos <= Len(command)
    /\ LET char == command[pos]
       IN  Show(IF char = SP THEN <<Ev("color", "type", <<White>>)>>
                ELSE <<Ev("write", "type", <<char>>),
                       [Ev("sleep", "type", <<>>) EXCEPT !.ms = cfg.charDelay]>>)
    /\ pos' = pos + 1
    /\ UNCHANGED <<pc, cfg, stdinPiped, args, flaky, acquired, input, p, commands, idx, ret>>

\* one round of the range loop over str: the colour is reset at a space,
\* the character is written, the delay is slept
TypeChar ==
    /\ pc = "typing"
    /\ pos <= Len(command)
    /\ LET char == command[pos]
       IN  Show((IF char = SP THEN <<Ev("color", "type", <<White>>)>> ELSE <<>>)
                \o <<Ev("write", "type", <<char>>),
                     [Ev("sleep", "type", <<>>) EXCEPT !.ms = cfg.charDelay]>>)
    /\ pos' = pos + 1
    /\ UNCHANGED <<pc, cfg, stdinPiped, args, flaky, acquired, input, p, commands, idx, ret>>

\* the range loop is over: the colour is reset, TypeAsHuman returns nil
TypeEnd ==
    /\ pc = "typing"
    /\ pos > Len(command)
    /\ Show(<<Ev("color", "type", <<White>>)>>)
    /\ pos' = 0
    /\ pc' = "newline"
    /\ UNCHANGED <<cfg, stdinPiped, args, flaky, acquired, input, p, commands, idx, ret>>

\* fmt.Println() after the typed command
Newline ==
    /\ pc = "newline"
    /\ Show(<<Ev("newline", "type", <<>>)>>)
    /\ pc' = "exec"
    /\ UNCHANGED <<cfg, stdinPiped, args, flaky, acquired, input, p, commands, idx, pos, ret>>

\* the prompt printed before the command is run
ExecuteAfterPrompt ==
    /\ pc = "exec"
    /\ \E ok \in Outcomes :
          LET cmdList == CmdList(command)
              run == [Ev("exec", "exec", cmdList[1]) EXCEPT
                          !.argv = Tail(cmdList), !.ok = ok]
          IN  Show(<<Ev("prompt", "prompt", PrintPrompt(p))>>
                   \o (IF ok THEN <<run>> ELSE <<run, Ev("error", "exec", <<>>)>>))
    /\ pc' = "post"
    /\ UNCHANGED <<cfg, stdinPiped, args, flaky, acquired, input, p, commands, idx, pos, ret>>

\* a failed command returned as the error of the run
ExecuteOrReturn ==
    /\ pc = "exec"
    /\ \E ok \in Outcomes :
          LET cmdList == CmdList(command)
              run == [Ev("exec", "exec", cmdList[1]) EXCEPT
                          !.argv = Tail(cmdList), !.ok = ok]
          IN  /\ Show(<<run>>)
              /\ pc' = (IF ok THEN "prompt" ELSE "done")
              /\ ret' = (IF ok THEN ret ELSE "error")
    /\ UNCHANGED <<cfg, stdinPiped, args, flaky, acquired, input, p, commands, idx, pos>>

\* cli.ExecuteCommand: the command is split, run, and a failure is printed
Execute ==
    /\ pc = "exec"
    /\ \E ok \in Outcomes :
          LET cmdList == CmdList(command)
              run == [Ev("exec", "exec", cmdList[1]) EXCEPT
                          !.argv = Tail(cmdList), !.ok = ok]
          IN  Show(IF ok THEN <<run>> ELSE <<run, Ev("error", "exec", <<>>)>>)
    /\ pc' = "prompt"
    /\ UNCHANGED <<cfg, stdinPiped, args, flaky, acquired, input, p, commands, idx, pos, ret>>

\* the prompt after the command output
PrintPromptAfter ==
    /\ pc = "prompt"
    /\ Show(<<Ev("prompt", "prompt", PrintPrompt(p))>>)
    /\ pc' = "post"
    /\ UNCHANGED <<cfg, stdinPiped, args, flaky, acquired, input, p, commands, idx, pos, ret>>

PostDelay ==
    /\ pc = "post"
    /\ Show(Slept("post", cfg.postDelay))
    /\ pc' = "clear"
    /\ UNCHANGED <<cfg, stdinPiped, args, flaky, acquired, input, p, commands, idx, pos, ret>>

\* the test without the no-cls option
ClearWantedAlways(noCls, cmds, i) ==
    LET lastLine == cmds[Len(cmds)]
    IN  cmds[i] # lastLine

\* the test that guards the clear between commands
ClearWanted(noCls, cmds, i) ==
    LET lastLine == cmds[Len(cmds)]
    IN  ~noCls /\ cmds[i] # lastLine

\* the screen cleared between commands and left without a prompt
ClearBetweenNoReprint ==
    /\ pc = "clear"
    /\ ClearWanted(cfg.noCls, commands, idx)
    /\ \E ok \in Outcomes : Show(Cleared("clear", ok))
    /\ idx' = idx + 1
    /\ pc' = "pre"
    /\ UNCHANGED <<cfg, stdinPiped, args, flaky, acquired, input, p, commands, pos, ret>>

\* the screen is cleared between commands
ClearBetween ==
    /\ pc = "clear"
    /\ ClearWanted(cfg.noCls, commands, idx)
    /\ \E ok \in Outcomes : Show(Cleared("clear", ok))
    /\ pc' = "reprint"
    /\ UNCHANGED <<cfg, stdinPiped, args, flaky, acquired, input, p, commands, idx, pos, ret>>

\* the prompt is printed again on the cleared screen; next command
Reprint ==
    /\ pc = "reprint"
    /\ Show(<<Ev("prompt", "reprint", PrintPrompt(p))>>)
    /\ idx' = idx + 1
    /\ pc' = "pre"
    /\ UNCHANGED <<cfg, stdinPiped, args, flaky, acquired, input, p, commands, pos, ret>>

\* no clear for this command; next command
SkipClear ==
    /\ pc = "clear"
    /\ ~ClearWanted(cfg.noCls, commands, idx)
    /\ idx' = idx + 1
    /\ pc' = "pre"
    /\ UNCHANGED <<cfg, stdinPiped, args, flaky, acquired, input, p, commands, pos, screen, ret>>

\* the range loop is over: return nil
Return ==
    /\ pc = "pre"
    /\ idx > Len(commands)
    /\ pc' = "done"
    /\ ret' = "nil"
    /\ UNCHANGED <<cfg, stdinPiped, args, flaky, acquired, input, p, commands, idx, pos, screen>>

Next ==
    \/ AcquireFile
    \/ AcquireStdin
    \/ ShowHelp
    \/ AcquireArgs
    \/ ClearFirst
    \/ SetupPrompt
    \/ SplitInput
    \/ PrintFirstPrompt
    \/ PreDelay
    \/ TypeWhole
    \/ TypeStart
    \/ TypeChar
    \/ TypeEnd
    \/ Newline
    \/ Execute
    \/ PrintPromptAfter
    \/ PostDelay
    \/ ClearBetween
    \/ Reprint
    \/ SkipClear
    \/ Return

Spec == Init /\ [][Next]_vars

\* ------------------------------------------------------------------------
\* Reading the screen log
\* ------------------------------------------------------------------------
\* the positions of the log where command i was at the given step and
\* something of the given kind was done
At(i, step, kind) ==
    {j \in DOMAIN screen :
        screen[j].cmd = i /\ screen[j].step = step /\ screen[j].kind = kind}

Once(i, step, kind) == Cardinality(At(i, step, kind)) = 1
Never(i, step, kind) == At(i, step, kind) = {}

\* the positions of the log with the given kind
Kind(kind) == {j \in DOMAIN screen : screen[j].kind = kind}

\* the characters TypeAsHuman has written to its writer for command i
RECURSIVE WrittenFrom(_, _)
WrittenFrom(i, j) ==
    IF j > Len(screen) THEN <<>>
    ELSE (IF screen[j].cmd = i /\ screen[j].kind = "write" THEN screen[j].text ELSE <<>>)
             \o WrittenFrom(i, j + 1)

Written(i) == WrittenFrom(i, 1)

\* the run went through the acquisition and played its commands to the end
Played == pc = "done" /\ acquired.source # "none"

\* command i has been played completely
Finished(i) == i \in 1..Len(commands) /\ idx > i

\* the loop is between two commands, or over
BetweenCommands == pc \in {"pre", "done"}

\* ------------------------------------------------------------------------
\* C1
\* ------------------------------------------------------------------------
StepRank(step) ==
    CASE step = "init"    -> 0
      [] step = "pre"     -> 1
      [] step = "type"    -> 2
      [] step = "exec"    -> 3
      [] step = "prompt"  -> 4
      [] step = "post"    -> 5
      [] step = "clear"   -> 6
      [] step = "reprint" -> 7

StepKinds(step) ==
    CASE step = "init"    -> {"help", "clear", "error", "prompt"}
      [] step = "pre"     -> {"sleep"}
      [] step = "type"    -> {"color", "write", "sleep", "newline"}
      [] step = "exec"    -> {"exec", "error"}
      [] step = "prompt"  -> {"prompt"}
      [] step = "post"    -> {"sleep"}
      [] step = "clear"   -> {"clear", "error"}
      [] step = "reprint" -> {"prompt"}

Before(e, f) ==
    \/ e.cmd < f.cmd
    \/ e.cmd = f.cmd /\ StepRank(e.step) <= StepRank(f.step)

\* C1: for every command the loop does, in this order, the pre-delay sleep
\* (when the delay is positive), the typing, the execution, the prompt, the
\* post-delay sleep (when the delay is positive) and then the optional
\* clear followed by the reprint of the prompt; nothing of a later command
\* is done before everything of an earlier one.  Read off the log each
\* time the loop is between two commands and when it is over.
C1_StepOrder ==
    BetweenCommands =>
        /\ \A j \in DOMAIN screen : screen[j].kind \in StepKinds(screen[j].step)
        /\ \A j \in 1..(Len(screen) - 1) : Before(screen[j], screen[j + 1])
        /\ \A i \in 1..Len(commands) :
              Finished(i) =>
                 /\ Cardinality(At(i, "pre", "sleep")) = (IF cfg.preDelay > 0 THEN 1 ELSE 0)
                 /\ Once(i, "type", "newline")
                 /\ Once(i, "exec", "exec")
                 /\ Once(i, "prompt", "prompt")
                 /\ Cardinality(At(i, "post", "sleep")) = (IF cfg.postDelay > 0 THEN 1 ELSE 0)
                 /\ Cardinality(At(i, "clear", "clear")) <= 1
                 /\ Cardinality(At(i, "clear", "clear")) = Cardinality(At(i, "reprint", "prompt"))

C1_Witness ==
    /\ Played
    /\ Len(commands) >= 2
    /\ cfg.preDelay > 0
    /\ cfg.postDelay > 0
    /\ Once(1, "reprint", "prompt")
    /\ Once(2, "exec", "exec")

\* ------------------------------------------------------------------------
\* C2
\* ------------------------------------------------------------------------
\* C2: with screen clearing enabled, a finished run of N commands has
\* cleared the screen and reprinted the prompt after each of the first N-1
\* commands and not after the last, whatever the texts of the commands.
C2_ClearAfterAllButLast ==
    (Played /\ ~cfg.noCls) =>
        /\ \A i \in 1..(Len(commands) - 1) :
              Once(i, "clear", "clear") /\ Once(i, "reprint", "prompt")
        /\ Never(Len(commands), "clear", "clear")
        /\ Cardinality({j \in Kind("clear") : screen[j].step = "clear"})
              = Len(commands) - 1

\* ------------------------------------------------------------------------
\* C3
\* ------------------------------------------------------------------------
\* the commands executed so far, in the order of their execution
RECURSIVE ExecutedFrom(_)
ExecutedFrom(j) ==
    IF j > Len(screen) THEN <<>>
    ELSE (IF screen[j].kind = "exec" THEN <<screen[j].cmd>> ELSE <<>>)
             \o ExecutedFrom(j + 1)

\* the commands whose typing was completed so far, in that order
RECURSIVE TypedFrom(_)
TypedFrom(j) ==
    IF j > Len(screen) THEN <<>>
    ELSE (IF screen[j].kind = "newline" THEN <<screen[j].cmd>> ELSE <<>>)
             \o TypedFrom(j + 1)

\* C3: a failure of an execution or of a clear never ends the loop: once
\* the input is acquired the run cannot return an error, and a finished
\* run has typed and executed every command once, in list order, printed
\* the prompt after every failed command, and returned nil.
C3_FailuresDoNotAbort ==
    /\ acquired.source # "none" => ret # "error"
    /\ (pc = "done" /\ ret = "error") => Kind("exec") = {} /\ Kind("clear") = {}
    /\ Played =>
          /\ ret = "nil"
          /\ ExecutedFrom(1) = [i \in 1..Len(commands) |-> i]
          /\ TypedFrom(1) = [i \in 1..Len(commands) |-> i]
          /\ \A i \in 1..Len(commands) : Written(i) = commands[i]
          /\ \A j \in Kind("exec") :
                ~screen[j].ok =>
                   \E k \in Kind("prompt") :
                      k > j /\ screen[k].cmd = screen[j].cmd /\ screen[k].step = "prompt"

C3_Witness ==
    /\ Played
    /\ Len(commands) >= 2
    /\ \E j \in Kind("exec") : ~screen[j].ok /\ screen[j].cmd = 1
    /\ \E j \in Kind("clear") : ~screen[j].ok /\ screen[j].step = "clear"

\* ------------------------------------------------------------------------
\* C4
\* ------------------------------------------------------------------------
\* C4: with no-cls set, the only clear of a run is the one before the
\* first prompt, and every command played is followed by exactly one
\* prompt.
C4_NoClsNeverClears ==
    cfg.noCls =>
        /\ \A j \in Kind("clear") : screen[j].step = "init" /\ screen[j].cmd = 0
        /\ Cardinality(Kind("clear")) <= 1
        /\ \A i \in 1..Len(commands) :
              (BetweenCommands /\ Finished(i)) =>
                 Cardinality({j \in Kind("prompt") : screen[j].cmd = i}) = 1

C4_Witness ==
    /\ Played
    /\ cfg.noCls
    /\ Len(commands) >= 3
    /\ commands[1] # commands[Len(commands)]
    /\ Cardinality(Kind("clear")) = 1

\* ------------------------------------------------------------------------
\* C5
\* ------------------------------------------------------------------------
\* the descriptor with another user and host
Renamed(q, u, h) == [q EXCEPT !.Username = u, !.Hostname = h]

\* C5: every prompt on the screen is the text its shell style prescribes,
\* "PS <path>> ", "<path>> " or "<username>@<hostname>:<path>$ " with the
\* colour escapes around user@host and around the path; the PS and Cmd
\* texts are the same for every username and hostname; and all prompts of
\* a run are the same text.
C5_PromptText ==
    /\ \A j \in Kind("prompt") :
          LET t == screen[j].text
          IN  /\ p.Shell = PS => t = <<"P", "S", " ">> \o p.Path \o <<">", " ">>
              /\ p.Shell = Cmd => t = p.Path \o <<">", " ">>
              /\ p.Shell = Bash =>
                    t = <<Green>> \o p.Username \o <<"@">> \o p.Hostname \o <<White>>
                            \o <<":">> \o <<Blue>> \o p.Path \o <<White>> \o <<"$", " ">>
              /\ p.Shell \in {PS, Cmd} =>
                    \A u \in UserNames, h \in HostNames :
                       PrintPrompt(Renamed(p, u, h)) = t
    /\ \A j, k \in Kind("prompt") : screen[j].text = screen[k].text

C5_Witness ==
    /\ Played
    /\ p.Shell = Bash
    /\ p.Path = <<"~">>
    /\ Cardinality(Kind("prompt")) >= 4

\* ------------------------------------------------------------------------
\* C6
\* ------------------------------------------------------------------------
\* the text without the carriage returns that stand right before a newline
RECURSIVE WithoutCRBeforeNL(_, _)
WithoutCRBeforeNL(t, j) ==
    IF j > Len(t) THEN <<>>
    ELSE (IF t[j] = CR /\ j < Len(t) /\ t[j + 1] = NL THEN <<>> ELSE <<t[j]>>)
             \o WithoutCRBeforeNL(t, j + 1)

\* the input has been split into the command list
SplitDone == acquired.source # "none" /\ pc \notin {"acquire", "clear0", "setup", "split"}

\* C6: the command list is the acquired text, with every "\r\n" replaced
\* by "\n", split on newlines: k newlines in the text give k+1 commands,
\* none of which holds a newline, joining them with "\n" gives the
\* normalised text back, and every command, the empty ones too, is typed
\* and executed.
C6_SplitLines ==
    /\ SplitDone =>
          /\ input = WithoutCRBeforeNL(acquired.text, 1)
          /\ Len(commands) = Count(acquired.text, NL) + 1
          /\ Join(commands, NL) = input
          /\ \A i \in 1..Len(commands) : Count(commands[i], NL) = 0
    /\ Played =>
          \A i \in 1..Len(commands) :
             Once(i, "type", "newline") /\ Once(i, "exec", "exec")

C6_Witness ==
    /\ Played
    /\ acquired.text = <<"a", CR, NL>>
    /\ commands = <<<<"a">>, <<>>>>
    /\ Once(2, "exec", "exec")

\* ------------------------------------------------------------------------
\* C7
\* ------------------------------------------------------------------------
\* C7: TypeAsHuman writes to its writer the characters of the string, each
\* once and in order, and nothing else, whatever the delay: with a delay
\* other than zero one character per Write, so that after n rounds the
\* first n characters are written, and with a zero delay the whole string
\* in one Write; it reports no error.
C7_TypedExactly ==
    /\ pc = "typing" =>
          /\ Written(idx) = SubSeq(command, 1, pos - 1)
          /\ Cardinality(At(idx, "type", "write")) = pos - 1
          /\ \A j \in At(idx, "type", "write") : Len(screen[j].text) = 1
    /\ pc = "newline" =>
          /\ Written(idx) = command
          /\ Cardinality(At(idx, "type", "write"))
                = (IF cfg.charDelay = 0 THEN 1 ELSE Len(command))
          /\ Never(idx, "type", "error")

C7_Witness ==
    /\ pc = "newline"
    /\ cfg.charDelay < 0
    /\ command = <<"a", SP, "a">>
    /\ Written(idx) = command

\* ------------------------------------------------------------------------
\* C8
\* ------------------------------------------------------------------------
\* C8: every execution runs the command split at each single space: the
\* program is the text before the first space, a command with k spaces
\* has k arguments, no piece holds a space, and program and arguments
\* joined with single spaces are the command line.
C8_SplitOnSpaces ==
    \A j \in Kind("exec") :
       LET c == commands[screen[j].cmd]
           prog == screen[j].text
           argv == screen[j].argv
           m == Index(c, SP)
       IN  /\ prog = (IF m = 0 THEN c ELSE SubSeq(c, 1, m - 1))
           /\ Len(argv) = Count(c, SP)
           /\ Count(prog, SP) = 0
           /\ \A k \in 1..Len(argv) : Count(argv[k], SP) = 0
           /\ Join(<<prog>> \o argv, SP) = c

C8_Witness ==
    \E j \in Kind("exec") :
       /\ screen[j].text = <<>>
       /\ screen[j].argv = <<<<>>, <<"a">>>>

\* ------------------------------------------------------------------------
\* C9
\* ------------------------------------------------------------------------
\* the run ended on a read error before anything was done
ReadFailed ==
    /\ pc = "done"
    /\ ret = "error"
    /\ acquired.source = "none"
    /\ screen = <<>>

\* C9: the input comes from one source, chosen by priority: the input
\* file when the option is not empty, else standard input when it is
\* piped, else the arguments joined with single spaces; with none of the
\* three the help is shown and nothing else is done; a read error ends
\* the run with nothing done.
C9_SourcePriority ==
    /\ pc # "acquire" =>
          /\ cfg.inputFile # <<>> =>
                \/ ReadFailed
                \/ acquired.source = "file" /\ acquired.text = ProcessFile(acquired.raw)
          /\ (cfg.inputFile = <<>> /\ stdinPiped) =>
                \/ ReadFailed
                \/ acquired.source = "stdin" /\ acquired.text = acquired.raw
          /\ (cfg.inputFile = <<>> /\ ~stdinPiped /\ args # <<>>) =>
                /\ acquired.source = "args"
                /\ acquired.text = Join(args, SP)
                /\ Len(acquired.text) = Len(args) + Len(args) - 1
          /\ (cfg.inputFile = <<>> /\ ~stdinPiped /\ args = <<>>) =>
                /\ pc = "done"
                /\ ret = "nil"
                /\ acquired.source = "none"
                /\ Len(screen) = 1
                /\ screen[1].kind = "help"
    /\ ret = "error" => ReadFailed
    /\ (acquired.source # "none" /\ pc \in {"clear0", "setup", "split"}) =>
          input = acquired.text

C9_Witness ==
    /\ Played
    /\ cfg.inputFile # <<>>
    /\ stdinPiped
    /\ args # <<>>
    /\ acquired.source = "file"
    /\ Kind("exec") # {}

\* ------------------------------------------------------------------------
\* C10
\* ------------------------------------------------------------------------
StartsWith(t, prefix) ==
    Len(t) >= Len(prefix) /\ SubSeq(t, 1, Len(prefix)) = prefix

\* the prompt descriptor has been built
SetupDone == acquired.source # "none" /\ pc \notin {"acquire", "clear0", "setup"}

\* C10: the descriptor has one of the three shell styles, "cmd" gives
\* Cmd, "bash" gives Bash and anything else PowerShell; no prompt is the
\* "Unknown shell" text; the path option is used as it is when it is
\* not empty, and else the path is "~" for Bash and "C:\" otherwise.
C10_ShellAndPath ==
    /\ SetupDone =>
          /\ p.Shell \in {PS, Cmd, Bash}
          /\ p.Shell = Cmd <=> cfg.shell = <<"c", "m", "d">>
          /\ p.Shell = Bash <=> cfg.shell = <<"b", "a", "s", "h">>
          /\ cfg.path # <<>> => p.Path = cfg.path
          /\ cfg.path = <<>> =>
                p.Path = (IF p.Shell = Bash THEN <<"~">> ELSE <<"C", ":", "\\">>)
          /\ p.Username = cfg.username
          /\ p.Hostname = cfg.hostname
    /\ \A j \in Kind("prompt") : ~StartsWith(screen[j].text, UnknownShell)

C10_Witness ==
    /\ Played
    /\ cfg.shell = <<"z", "s", "h">>
    /\ cfg.path = <<>>
    /\ p.Shell = PS
    /\ Kind("prompt") # {}

\* ------------------------------------------------------------------------
\* C11
\* ------------------------------------------------------------------------
\* the command list RunE makes of an acquired text
CommandsOf(text) == Split(ReplaceCRLF(text), NL)

\* C11: the command list of a run does not depend on the way its text was
\* read: a run that read a text from the input file or from standard
\* input has the command list that reading the same text the other way
\* gives.
C11_SameCommandsFromFileAndStdin ==
    (SplitDone /\ acquired.source \in {"file", "stdin"}) =>
        /\ commands = CommandsOf(ProcessFile(acquired.raw))
        /\ commands = CommandsOf(ProcessStdin(acquired.raw))

\* ------------------------------------------------------------------------
\* C12
\* ------------------------------------------------------------------------
\* the last position up to j where something was put on the screen (a
\* sleep puts nothing on it); 0 when there is none
RECURSIVE LastOutput(_)
LastOutput(j) ==
    IF j = 0 THEN 0
    ELSE IF screen[j].kind # "sleep" THEN j
    ELSE LastOutput(j - 1)

\* position j is where the typing of a command starts
TypingStarts(j) ==
    /\ screen[j].step = "type"
    /\ j = 1 \/ screen[j - 1].step # "type" \/ screen[j - 1].cmd # screen[j].cmd

====
